---- MODULE Spec2Model ----
(***************************************************************************)
(* Model of the userapi service's two concurrent components:               *)
(*   - cacheStore.store  (GetData / addData / cleanUpJob / Clear)          *)
(*   - UserService       (WatchUsers / NotifyUpdate)                       *)
(* Each goroutine is a process whose position is a pc value; every lock    *)
(* acquisition, loader invocation and channel operation is its own step.   *)
(***************************************************************************)
EXTENDS Integers, Sequences, FiniteSets, TLC

\* ------------------------------------------------------------------ bounds
MaxTime == 1        \* the clock runs 0..MaxTime
MaxEvents == 2      \* NotifyUpdate is called at most MaxEvents times
MaxReqs == 3        \* the handlers serve at most MaxReqs requests

\* ----------------------------------------------------------- cache: inputs
Procs == {"g1", "g2"}                  \* goroutines calling GetData
Keys == {"key1", "key2"}
Loaders == {"fetchMockData", "fetchAlternateMockData", "findError"}
Durations == {0, 1}                    \* ttl handed to NewStore
\* The (key, loader) pairs GetData is called with: every loader on key1, and
\* the loader that succeeds on key2.
Inputs == (({"key1"} \X Loaders) \cup {<<"key2", "fetchMockData">>})
KeyOf == [p \in Procs |-> IF p = "g1" THEN "key1" ELSE "key2"]
LoaderOf == [p \in Procs |-> IF p = "g1" THEN "fetchMockData" ELSE "fetchAlternateMockData"]

Nil == "nil"
NoLock == "none"
ZeroValue == << >>
ZeroItem == [key |-> "", created |-> -1, data |-> ZeroValue]
NoSweep == [at |-> -1, deleted |-> {}]

VARIABLES
    \* cacheStore.store
    now,            \* the clock read by time.Now / time.Since
    duration,       \* s.duration
    data,           \* s.data: key -> cacheItem
    writer,         \* holder of s.lock in write mode, or NoLock
    readers,        \* holders of s.lock in read mode
    cleanUpActive,  \* s.cleanUpActive
    spc,            \* position of the cleanUpJob goroutine
    \* one GetData call per goroutine
    pc, key, fn, item, ok, err,
    \* history of the calls (read by the properties only)
    loads,          \* loader invocations of the current call
    stored,         \* per key: the earliest store whose ttl window is still open
    seen,           \* stored[key] when the call started
    first,          \* what the call's first lookup found
    waited,         \* a load of the key by another call ended while this one waited on a miss
    snap,           \* s.data when the call took the write lock it holds
    failed,         \* per key: the last load failed on an absent key, none stored since
    sawFail,        \* failed[key] at the call's first lookup
    dup,            \* the call's load repeated the load of a waiting peer
    loadedAt,       \* the clock when the call's loader returned
    called,         \* goroutines that have made their one call (SpecDistinct)
    cleared,        \* a Clear has emptied the map, nothing stored since
    sawClear,       \* cleared, at the call's first lookup
    swept,          \* the pass the cleanUpJob is in: its clock sample, the entries it deleted
    tornDown,       \* the owner of the store has dropped it: no call is made any more
    \* UserService
    watchers,       \* s.watchers: the registered channels, one per WatchUsers call
    muWriter,       \* holder of s.mu in write mode, or NoLock
    muPending,      \* goroutines blocked in s.mu.Lock()
    muReaders,      \* holders of s.mu in read mode
    wpc,            \* position of each WatchUsers call
    hold,           \* the update a WatchUsers call is handing to stream.Send (0: none)
    recvd,          \* per WatchUsers call: the updates received from its channel
    npc,            \* position of each NotifyUpdate call
    ev,             \* the update each NotifyUpdate call publishes (0: none)
    todo,           \* channels the range of a NotifyUpdate call has yet to visit
    nextEv,         \* number of NotifyUpdate calls made so far
    \* history of the NotifyUpdate calls (read by the properties only)
    tried,          \* channels the call has attempted a send on
    able,           \* channels whose receiver was waiting when the call tried them
    \* channels and streams
    closed,         \* the channels close() has been called on
    panicked,       \* WatchUsers calls whose deferred function has panicked
    cancelled,      \* WatchUsers calls whose stream is cancelled or broken
    \* history of the updates (read by the properties only)
    prior,          \* per NotifyUpdate call: the updates whose call had returned when it started
    \* the user collection and the request handlers
    users,          \* the documents of the users collection: id and nickname
    nextId,         \* the ids newUUID has handed out
    nReq,           \* the requests served or in service
    hpc,            \* position of each request handler
    hreq,           \* the request the handler is serving
    hres,           \* what the handler answers: "ok" or "error"
    spawned,        \* goroutines started by a handler that have yet to call NotifyUpdate
    published,      \* the NotifyUpdate calls made: user id and update type
    \* history of the writes (read by the properties only)
    writes,         \* the writes the collection has carried out: operation, id, handler
    hwrite,         \* per handler: the place in writes of the write it made (0: none)
    \* one call of validation.User
    vin,            \* its arguments
    vout,           \* what it returns ("pending" before it has)
    \* one query for users
    qin,            \* the entry point, and the page and limit of the request
    qout            \* the calls of db.GetUsersFiltered made for it: page, limit, skip

cacheVars == <<now, duration, data, writer, readers, cleanUpActive, spc,
               pc, key, fn, item, ok, err>>
histVars == <<loads, stored, seen, first, waited, snap, failed, sawFail, dup, loadedAt>>
histMore == <<cleared, sawClear, swept>>
bcMore == <<closed, panicked, cancelled, prior>>
valVars == <<vin, vout, qin, qout>>
apiVars == <<users, nextId, nReq, hpc, hreq, hres, spawned, published, writes, hwrite,
             valVars>>
bcVars == <<watchers, muWriter, muPending, muReaders, wpc, hold, recvd, npc, ev, todo,
            nextEv, tried, able, bcMore>>
vars == <<cacheVars, histVars, histMore, called, tornDown, apiVars, bcVars>>

\* ------------------------------------------------------ cache: pure parts
\* The loaders of the tests, and the db.GetUsers loader when the find fails.
Apply(f, k) ==
    IF f = "findError" \/ k = "error"
    THEN [val |-> ZeroValue, err |-> "mock error"]
    ELSE [val |-> <<f, k>>, err |-> Nil]

\* Mutant of Expired: the comparison made strict.
ExpiredStrict(it, t) == t - it.created > duration

\* Mutant of Expired: a ttl of zero is taken to mean that nothing expires.
ExpiredPositive(it, t) == duration > 0 /\ t - it.created >= duration

\* now.Sub(item.created) >= duration / time.Since(item.created) >= s.duration
Expired(it, t) == t - it.created >= duration

Lookup(k) == IF k \in DOMAIN data THEN data[k] ELSE ZeroItem

\* Mutant of LockFree: Lock() does not wait for the holders of the read lock.
LockFreeOfWriters == writer = NoLock

\* s.lock.Lock() can be acquired: no holder in either mode.
LockFree == writer = NoLock /\ readers = {}

\* Mutant of addData: the item is stored whatever the loader returned.
addDataPoison(k, f) ==
    LET r == Apply(f, k)
        it == [key |-> k, created |-> now, data |-> r.val]
    IN [item |-> IF r.err # Nil THEN ZeroItem ELSE it, err |-> r.err,
        data |-> [x \in DOMAIN data \cup {k} |-> IF x = k THEN it ELSE data[x]]]

\* addData: invoke the loader; on success build the item and store it.
addData(k, f) ==
    LET r == Apply(f, k)
        it == [key |-> k, created |-> now, data |-> r.val]
    IN IF r.err # Nil
       THEN [item |-> ZeroItem, err |-> r.err, data |-> data]
       ELSE [item |-> it, err |-> Nil,
             data |-> [x \in DOMAIN data \cup {k} |-> IF x = k THEN it ELSE data[x]]]

\* ----------------------------------------------------- UserService: Init
Watchers == {"S1", "S2"}               \* WatchUsers calls (each makes one channel)
Notifiers == {"n1", "n2"}              \* goroutines calling NotifyUpdate

NewUserService ==
    /\ watchers = {}
    /\ muWriter = NoLock
    /\ muPending = {}
    /\ muReaders = {}
    /\ wpc = [w \in Watchers |-> "idle"]
    /\ hold = [w \in Watchers |-> 0]
    /\ recvd = [w \in Watchers |-> << >>]
    /\ npc = [n \in Notifiers |-> "idle"]
    /\ ev = [n \in Notifiers |-> 0]
    /\ todo = [n \in Notifiers |-> {}]
    /\ nextEv = 0
    /\ tried = [n \in Notifiers |-> {}]
    /\ able = [n \in Notifiers |-> {}]
    /\ closed = {}
    /\ panicked = {}
    /\ cancelled = {}
    /\ prior = [n \in Notifiers |-> {}]

\* ------------------------------------------------------------ cache: Init
NewStore ==
    /\ now = 0
    /\ duration \in Durations
    /\ data = << >>
    /\ writer = NoLock
    /\ readers = {}
    /\ cleanUpActive = TRUE
    /\ spc = "sleep"
    /\ pc = [p \in Procs |-> "idle"]
    /\ key = [p \in Procs |-> ""]
    /\ fn = [p \in Procs |-> ""]
    /\ item = [p \in Procs |-> ZeroItem]
    /\ ok = [p \in Procs |-> FALSE]
    /\ err = [p \in Procs |-> Nil]

HistInit ==
    /\ loads = [p \in Procs |-> 0]
    /\ stored = [k \in Keys |-> ZeroItem]
    /\ seen = [p \in Procs |-> ZeroItem]
    /\ first = [p \in Procs |-> ""]
    /\ waited = [p \in Procs |-> ""]
    /\ snap = [p \in Procs |-> << >>]
    /\ failed = [k \in Keys |-> FALSE]
    /\ sawFail = [p \in Procs |-> FALSE]
    /\ dup = [p \in Procs |-> FALSE]
    /\ loadedAt = [p \in Procs |-> -1]
    /\ cleared = FALSE
    /\ sawClear = [p \in Procs |-> FALSE]
    /\ swept = NoSweep

\* ------------------------------------------- handlers and collection: Init
Handlers == {"h1", "h2"}               \* goroutines serving a request each
Nicks == {"Alchemist", "Dazzle"}
Ids == 1..MaxReqs                      \* the well-formed ids (newUUID hands them out in turn)
NoUser == [id |-> 0, nick |-> ""]      \* data.User{}
NoReq == [op |-> "", via |-> "", fault |-> "", id |-> 0, nick |-> ""]

NewCollection ==
    /\ users = {}
    /\ nextId = 0
    /\ nReq = 0
    /\ hpc = [h \in Handlers |-> "idle"]
    /\ hreq = [h \in Handlers |-> NoReq]
    /\ hres = [h \in Handlers |-> ""]
    /\ spawned = {}
    /\ published = {}
    /\ writes = << >>
    /\ hwrite = [h \in Handlers |-> 0]

\* No call of validation.User is being followed.
NoArgs == [firstName |-> "", lastName |-> "", nickName |-> "", password |-> << >>,
           country |-> "", email |-> << >>]

NoValidation == vin = NoArgs /\ vout = ""

NoQuery == qin = [via |-> "", page |-> 0, limit |-> 0] /\ qout = << >>

InitRest ==
    NewStore /\ HistInit /\ called = {} /\ tornDown = FALSE /\ NewUserService /\ NewCollection

Init == InitRest /\ NoValidation /\ NoQuery

\* --------------------------------------------------------- cache: GetData
\* The age of the item has reached the ttl (the history's own reading of the clock).
ReachedTtl(it) == now - it.created >= duration

\* p has seen a miss in its first lookup and has not locked since.
MissPending(p) ==
    \/ pc[p] = "l2" /\ first[p] = "absent"
    \/ pc[p] = "l3" /\ first[p] = "expired"

\* The store of item it for key k, as the history keeps it.
Remember(k, it) ==
    IF now < it.created + duration
       /\ (stored[k] = ZeroItem \/ now >= stored[k].created + duration)
    THEN [stored EXCEPT ![k] = it]
    ELSE stored

\* A load by q repeats a load that ended while q waited on the same miss:
\* that load failed, or the entry it stored is still in the map and fresh.
Repeats(q) ==
    \/ waited[q] = "err"
    \/ waited[q] = "ok" /\ key[q] \in DOMAIN data /\ ~ReachedTtl(data[key[q]])

\* What the call is about to return (lines 317, 330, 334).
Result(p) ==
    IF err[p] # Nil
    THEN [val |-> ZeroValue, err |-> err[p]]
    ELSE [val |-> item[p].data, err |-> Nil]

\* The locals and the history of a call that has returned.
Returned(p) ==
    /\ pc' = [pc EXCEPT ![p] = "idle"]
    /\ key' = [key EXCEPT ![p] = ""]
    /\ fn' = [fn EXCEPT ![p] = ""]
    /\ item' = [item EXCEPT ![p] = ZeroItem]
    /\ ok' = [ok EXCEPT ![p] = FALSE]
    /\ err' = [err EXCEPT ![p] = Nil]
    /\ loads' = [loads EXCEPT ![p] = 0]
    /\ seen' = [seen EXCEPT ![p] = ZeroItem]
    /\ first' = [first EXCEPT ![p] = ""]
    /\ waited' = [waited EXCEPT ![p] = ""]
    /\ sawFail' = [sawFail EXCEPT ![p] = FALSE]
    /\ dup' = [dup EXCEPT ![p] = FALSE]
    /\ loadedAt' = [loadedAt EXCEPT ![p] = -1]
    /\ sawClear' = [sawClear EXCEPT ![p] = FALSE]

\* GetData is called and takes the read lock (line 306).
Call(p, k, f) ==
    /\ pc[p] = "idle"
    /\ writer = NoLock
    /\ readers' = readers \cup {p}
    /\ pc' = [pc EXCEPT ![p] = "r1"]
    /\ key' = [key EXCEPT ![p] = k]
    /\ fn' = [fn EXCEPT ![p] = f]
    /\ UNCHANGED <<now, duration, data, writer, cleanUpActive, spc, item, ok, err,
                   histVars, histMore>>

\* Mutant of RUnlock: the read lock is kept until the call returns.
RUnlockDeferred(p) == readers

\* s.lock.RUnlock() of line 309: the holders of the read lock without p.
RUnlock(p) == readers \ {p}

\* The first lookup, under the read lock, and RUnlock (lines 307-309).
Read1(p) ==
    /\ pc[p] = "r1"
    /\ LET k == key[p]
           hit == k \in DOMAIN data
       IN /\ item' = [item EXCEPT ![p] = Lookup(k)]
          /\ ok' = [ok EXCEPT ![p] = hit]
          /\ pc' = [pc EXCEPT ![p] = IF hit THEN "l3" ELSE "l2"]
          /\ first' = [first EXCEPT ![p] =
                          IF ~hit THEN "absent"
                          ELSE IF ReachedTtl(data[k]) THEN "expired" ELSE "hit"]
          /\ seen' = [seen EXCEPT ![p] = stored[k]]
          /\ sawFail' = [sawFail EXCEPT ![p] = failed[k]]
    /\ readers' = RUnlock(p)
    /\ UNCHANGED <<now, duration, data, writer, cleanUpActive, spc, key, fn, err,
                   loads, stored, waited, snap, dup, loadedAt, failed>>
    /\ sawClear' = [sawClear EXCEPT ![p] = cleared]
    /\ UNCHANGED <<cleared, swept>>
    /\ UNCHANGED <<called, tornDown, apiVars, bcVars>>

\* The full lock and the second lookup (lines 311-313).
Lock2(p) ==
    /\ pc[p] = "l2"
    /\ LockFree
    /\ writer' = p
    /\ item' = [item EXCEPT ![p] = Lookup(key[p])]
    /\ ok' = [ok EXCEPT ![p] = key[p] \in DOMAIN data]
    /\ pc' = [pc EXCEPT ![p] = IF key[p] \in DOMAIN data THEN "u2" ELSE "a2"]
    /\ snap' = [snap EXCEPT ![p] = data]
    /\ UNCHANGED <<now, duration, data, readers, cleanUpActive, spc, key, fn, err,
                   loads, stored, seen, first, waited, sawFail, dup, loadedAt, failed>>
    /\ UNCHANGED histMore
    /\ UNCHANGED <<called, tornDown, apiVars, bcVars>>

\* The loader returns inside addData, called with the lock held (line 314 / 328).
Add(p, at, next) ==
    /\ pc[p] = at
    /\ LET r == addData(key[p], fn[p])
       IN /\ item' = [item EXCEPT ![p] = r.item]
          /\ err' = [err EXCEPT ![p] = r.err]
          /\ data' = r.data
          /\ stored' = IF r.err = Nil THEN Remember(key[p], r.item) ELSE stored
          /\ failed' = [failed EXCEPT ![key[p]] = (r.err # Nil /\ at = "a2")]
          /\ waited' = [q \in Procs |->
                          IF q # p /\ key[q] = key[p] /\ MissPending(q)
                          THEN (IF r.err = Nil THEN "ok" ELSE "err")
                          ELSE waited[q]]
    /\ pc' = [pc EXCEPT ![p] = next]
    /\ loads' = [loads EXCEPT ![p] = @ + 1]
    /\ dup' = [dup EXCEPT ![p] = Repeats(p)]
    /\ loadedAt' = [loadedAt EXCEPT ![p] = now]
    /\ UNCHANGED <<now, duration, writer, readers, cleanUpActive, spc, key, fn, ok,
                   seen, first, snap, sawFail>>
    /\ cleared' = (cleared /\ addData(key[p], fn[p]).err # Nil)
    /\ UNCHANGED <<sawClear, swept>>
    /\ UNCHANGED <<called, tornDown, apiVars, bcVars>>

Add2(p) == Add(p, "a2", "u2")

\* Unlock after the second lookup; a failed load returns here (lines 315-321).
Unlock2(p) ==
    /\ pc[p] = "u2"
    /\ writer' = NoLock
    /\ snap' = [snap EXCEPT ![p] = << >>]
    /\ IF err[p] # Nil
       THEN Returned(p)
       ELSE /\ pc' = [pc EXCEPT ![p] = "l3"]
            /\ UNCHANGED <<key, fn, item, ok, err, loads, seen, first, waited,
                           sawFail, dup, loadedAt, sawClear>>
    /\ UNCHANGED <<now, duration, data, readers, cleanUpActive, spc, stored,
                   failed>>
    /\ UNCHANGED <<cleared, swept>>
    /\ UNCHANGED <<called, tornDown, apiVars, bcVars>>

\* Mutant of NeedsReload: an item found is reloaded whatever its age.
NeedsReloadFound(p) == ok[p]

\* Mutant of NeedsReload: the age is checked whether or not the lookup found the item.
NeedsReloadAnyItem(p) == Expired(item[p], now)

\* Mutant of NeedsReload: the age check is left out.
NeedsReloadNever(p) == FALSE

\* The age check of line 327.
NeedsReload(p) == ok[p] /\ Expired(item[p], now)

\* The lock for the age check, and the check (lines 325-327).
Lock3(p) ==
    /\ pc[p] = "l3"
    /\ LockFree
    /\ writer' = p
    /\ pc' = [pc EXCEPT ![p] = IF NeedsReload(p) THEN "a3" ELSE "ret"]
    /\ snap' = [snap EXCEPT ![p] = data]
    /\ UNCHANGED <<now, duration, data, readers, cleanUpActive, spc, key, fn, item,
                   ok, err, loads, stored, seen, first, waited, sawFail,
                   dup, loadedAt, failed>>
    /\ UNCHANGED histMore
    /\ UNCHANGED <<called, tornDown, apiVars, bcVars>>

Add3(p) == Add(p, "a3", "ret")

\* Return with the deferred Unlock (lines 326, 329-334).
Return(p) ==
    /\ pc[p] = "ret"
    /\ writer' = NoLock
    /\ snap' = [snap EXCEPT ![p] = << >>]
    /\ Returned(p)
    /\ UNCHANGED <<now, duration, data, readers, cleanUpActive, spc, stored,
                   failed>>
    /\ UNCHANGED <<cleared, swept>>
    /\ UNCHANGED <<called, tornDown, apiVars, bcVars>>

\* ----------------------------------------------------------- cache: Clear
\* Mutant of NewMap: Clear leaves the map as it is.
SameMap == data

\* make(map[K]cacheItem[K, V])
NewMap == << >>

Clear ==
    /\ LockFree
    /\ data # << >>
    /\ data' = NewMap
    /\ stored' = [k \in Keys |-> ZeroItem]
    /\ UNCHANGED <<now, duration, writer, readers, cleanUpActive, spc, pc, key, fn,
                   item, ok, err, loads, seen, first, waited, snap,
                   sawFail, dup, loadedAt, failed>>
    /\ cleared' = TRUE
    /\ UNCHANGED <<sawClear, swept>>
    /\ UNCHANGED <<called, tornDown, apiVars, bcVars>>

\* ------------------------------------------------------ cache: cleanUpJob
\* Mutant of Swept: the pass deletes every entry.
SweptAll(m, t) == [k \in {} |-> m[k]]

\* Mutant of Swept: the pass deletes nothing.
SweptNothing(m, t) == m

\* Mutant of Swept: an entry whose age is the ttl is kept.
SweptStrict(m, t) ==
    LET keep == {k \in DOMAIN m : ~ExpiredStrict(m[k], t)}
    IN [k \in keep |-> m[k]]

\* What a pass leaves of the map m when the clock reads t.
Swept(m, t) ==
    LET keep == {k \in DOMAIN m : ~Expired(m[k], t)}
    IN [k \in keep |-> m[k]]

\* What the unlocked len(s.data) of line 283 can read: the length of the map,
\* or, racing with the store of a GetData call that holds the lock, the length
\* before or after that store.
LenRead ==
    {Cardinality(DOMAIN data)}
    \cup (IF writer \in Procs
          THEN {Cardinality(DOMAIN snap[writer]),
                Cardinality(DOMAIN data \cup {key[writer]})}
          ELSE {})

\* The sleep ends; the flag and len(s.data) are read without the lock. With
\* the flag down the goroutine returns (lines 278-285).
SweepWake ==
    /\ spc = "sleep"
    /\ IF cleanUpActive
       THEN \E n \in LenRead : spc' = IF n < 1 THEN "sleep" ELSE "lock"
       ELSE spc' = "done"
    /\ UNCHANGED <<now, duration, data, writer, readers, cleanUpActive, pc, key, fn,
                   item, ok, err, histVars>>
    /\ UNCHANGED histMore
    /\ UNCHANGED <<called, tornDown, apiVars, bcVars>>

\* Lock, sample the clock, delete every expired entry (lines 286-294).
SweepPass ==
    /\ spc = "lock"
    /\ LockFree
    /\ writer' = "cleanUpJob"
    /\ data' = Swept(data, now)
    /\ spc' = "unlock"
    /\ UNCHANGED <<now, duration, readers, cleanUpActive, pc, key, fn, item, ok, err,
                   histVars>>
    /\ swept' = [at |-> now, deleted |-> DOMAIN data \ DOMAIN Swept(data, now)]
    /\ UNCHANGED <<cleared, sawClear>>
    /\ UNCHANGED <<called, tornDown, apiVars, bcVars>>

SweepUnlock ==
    /\ spc = "unlock"
    /\ writer' = NoLock
    /\ spc' = "sleep"
    /\ UNCHANGED <<now, duration, data, readers, cleanUpActive, pc, key, fn, item, ok,
                   err, histVars>>
    /\ swept' = NoSweep
    /\ UNCHANGED <<cleared, sawClear>>
    /\ UNCHANGED <<called, tornDown, apiVars, bcVars>>

\* ------------------------------------------------------------- the clock
Tick ==
    /\ now < MaxTime
    /\ now' = now + 1
    /\ stored' = [k \in Keys |->
                    IF stored[k] # ZeroItem /\ now + 1 >= stored[k].created + duration
                    THEN ZeroItem ELSE stored[k]]
    /\ UNCHANGED <<duration, data, writer, readers, cleanUpActive, spc, pc, key, fn,
                   item, ok, err, loads, seen, first, waited, snap,
                   sawFail, dup, loadedAt, failed>>
    /\ UNCHANGED histMore
    /\ UNCHANGED <<called, tornDown, apiVars, bcVars>>

\* ------------------------------------------------------------ cache: Spec
Next ==
    \/ \E p \in Procs, in \in Inputs : Call(p, in[1], in[2]) /\ UNCHANGED <<called, tornDown, apiVars, bcVars>>
    \/ \E p \in Procs : Read1(p)
    \/ \E p \in Procs : Lock2(p)
    \/ \E p \in Procs : Add2(p)
    \/ \E p \in Procs : Unlock2(p)
    \/ \E p \in Procs : Lock3(p)
    \/ \E p \in Procs : Add3(p)
    \/ \E p \in Procs : Return(p)
    \/ Clear
    \/ SweepWake
    \/ SweepPass
    \/ SweepUnlock
    \/ Tick

Spec == Init /\ [][Next]_vars

\* TestConcurrentDataAccess: one call per goroutine, each on its own key with a
\* loader that succeeds, on a fresh store; the clock and the cleanUpJob run on.
NextDistinct ==
    \/ \E p \in Procs :
          /\ p \notin called
          /\ called' = called \cup {p}
          /\ Call(p, KeyOf[p], LoaderOf[p])
          /\ UNCHANGED <<tornDown, apiVars, bcVars>>
    \/ \E p \in Procs : Read1(p)
    \/ \E p \in Procs : Lock2(p)
    \/ \E p \in Procs : Add2(p)
    \/ \E p \in Procs : Unlock2(p)
    \/ \E p \in Procs : Lock3(p)
    \/ \E p \in Procs : Return(p)
    \/ SweepWake
    \/ SweepPass
    \/ SweepUnlock
    \/ Tick

SpecDistinct == Init /\ [][NextDistinct]_vars

\* An entry that is loaded once and never read again: g1 makes one call, on
\* key1, while g2 goes on calling GetData on key2; the clock, the cleanUpJob
\* and Clear run on.
NextEvict ==
    \/ /\ "g1" \notin called
       /\ called' = called \cup {"g1"}
       /\ Call("g1", "key1", "fetchMockData")
       /\ UNCHANGED <<tornDown, apiVars, bcVars>>
    \/ Call("g2", "key2", "fetchMockData") /\ UNCHANGED <<called, tornDown, apiVars, bcVars>>
    \/ \E p \in Procs : Read1(p)
    \/ \E p \in Procs : Lock2(p)
    \/ \E p \in Procs : Add2(p)
    \/ \E p \in Procs : Unlock2(p)
    \/ \E p \in Procs : Lock3(p)
    \/ \E p \in Procs : Add3(p)
    \/ \E p \in Procs : Return(p)
    \/ Clear
    \/ SweepWake
    \/ SweepPass
    \/ SweepUnlock
    \/ Tick

\* The scheduler runs every goroutine that can run: a GetData call that holds
\* the lock goes on to release it, the cleanUpJob wakes up, and its Lock() is
\* served in the end (a waiting writer is not overtaken for ever).
FairCache ==
    /\ WF_vars(SweepWake) /\ SF_vars(SweepPass) /\ WF_vars(SweepUnlock)
    /\ \A p \in Procs :
          /\ WF_vars(Read1(p)) /\ WF_vars(Add2(p)) /\ WF_vars(Unlock2(p))
          /\ WF_vars(Add3(p)) /\ WF_vars(Return(p))

SpecEvict == Init /\ [][NextEvict]_vars /\ FairCache

\* A waiting s.lock.Lock() of a GetData call is served in the end as well: the
\* mutex hands the lock to its waiters in turn.
FairLocks ==
    \A p \in Procs : SF_vars(Lock2(p)) /\ SF_vars(Lock3(p))

\* The goroutines contend for one key, g1 with a loader that succeeds and g2
\* with one that succeeds or one that fails; Clear, the cleanUpJob and the clock
\* run on.
NextLive ==
    \/ \E p \in Procs, f \in {"fetchMockData", "findError"} :
          /\ p = "g1" => f = "fetchMockData"
          /\ Call(p, "key1", f)
          /\ UNCHANGED <<called, tornDown, apiVars, bcVars>>
    \/ \E p \in Procs : Read1(p)
    \/ \E p \in Procs : Lock2(p)
    \/ \E p \in Procs : Add2(p)
    \/ \E p \in Procs : Unlock2(p)
    \/ \E p \in Procs : Lock3(p)
    \/ \E p \in Procs : Add3(p)
    \/ \E p \in Procs : Return(p)
    \/ Clear
    \/ SweepWake
    \/ SweepPass
    \/ SweepUnlock
    \/ Tick

\* The store is made with a ttl above zero, as the service makes it (db.go,
\* line 93).
InitLive == Init /\ duration = 1

SpecLive == InitLive /\ [][NextLive]_vars /\ FairCache /\ FairLocks

\* The owner of the store lets go of it once its calls have returned (the end
\* of a test, the end of the process): nothing in the store's code takes part.
Teardown ==
    /\ ~tornDown
    /\ \A p \in Procs : pc[p] = "idle"
    /\ tornDown' = TRUE
    /\ UNCHANGED <<cacheVars, histVars, histMore, called, apiVars, bcVars>>

\* A store in use and then dropped: g1 makes one call on key1, g2 calls on key2
\* and Clear is called for as long as the store is in use; the cleanUpJob and
\* the clock run on.
NextTeardown ==
    \/ /\ ~tornDown
       /\ "g1" \notin called
       /\ called' = called \cup {"g1"}
       /\ Call("g1", "key1", "fetchMockData")
       /\ UNCHANGED <<tornDown, apiVars, bcVars>>
    \/ /\ ~tornDown
       /\ Call("g2", "key2", "fetchMockData")
       /\ UNCHANGED <<called, tornDown, apiVars, bcVars>>
    \/ \E p \in Procs : Read1(p)
    \/ \E p \in Procs : Lock2(p)
    \/ \E p \in Procs : Add2(p)
    \/ \E p \in Procs : Unlock2(p)
    \/ \E p \in Procs : Lock3(p)
    \/ \E p \in Procs : Add3(p)
    \/ \E p \in Procs : Return(p)
    \/ ~tornDown /\ Clear
    \/ Teardown
    \/ SweepWake
    \/ SweepPass
    \/ SweepUnlock
    \/ Tick

SpecTeardown == Init /\ [][NextTeardown]_vars /\ FairCache

\* ------------------------------------------------- UserService: WatchUsers
cacheAll == <<cacheVars, histVars, histMore, called, tornDown, apiVars>>

\* Mutant of MuFree: s.mu.Lock() does not wait at all.
MuFreeAlways == TRUE

\* Mutant of MuFree: Lock() does not wait for the readers.
MuFreeOfWriters == muWriter = NoLock

MuFree == muWriter = NoLock /\ muReaders = {}

\* Mutant of NewChan: a new channel comes with the updates published so far.
ChanWithBacklog == [i \in 1..nextEv |-> i]

\* make(chan *pb.UserUpdate): nothing has been sent on a new channel.
NewChan == << >>

\* The updates whose NotifyUpdate call has returned.
Returned_ev == (1..nextEv) \ {ev[n] : n \in Notifiers}

\* Mutant of deleteWatcher: the channel stays in the map.
deleteNothing(ws, w) == ws

\* delete(s.watchers, updateChan)
deleteWatcher(ws, w) == ws \ {w}

\* Mutant of closeChan: the channel is left open.
closeNothing(cs, w) == cs

\* close(updateChan)
closeChan(cs, w) == cs \cup {w}

\* make(chan) and the call of s.mu.Lock(), which waits for the lock (707-708).
WatchCall(w) ==
    /\ wpc[w] = "idle"
    /\ wpc' = [wpc EXCEPT ![w] = "lockwait"]
    /\ recvd' = [recvd EXCEPT ![w] = NewChan]
    /\ muPending' = muPending \cup {w}
    /\ UNCHANGED <<watchers, muWriter, muReaders, hold, npc, ev, todo, nextEv,
                   tried, able, cacheAll, bcMore>>

\* The lock is acquired and the channel is added to the watchers (708-711).
WatchRegister(w) ==
    /\ wpc[w] = "lockwait"
    /\ MuFree
    /\ muWriter' = w
    /\ muPending' = muPending \ {w}
    /\ watchers' = watchers \cup {w}
    /\ wpc' = [wpc EXCEPT ![w] = "unlock"]
    /\ UNCHANGED <<muReaders, hold, recvd, npc, ev, todo, nextEv, tried, able, cacheAll,
                   bcMore>>

\* s.mu.Unlock() of line 712; the call goes on to its range loop.
WatchUnlock(w) ==
    /\ wpc[w] = "unlock"
    /\ muWriter' = NoLock
    /\ wpc' = [wpc EXCEPT ![w] = "loop"]
    /\ UNCHANGED <<watchers, muPending, muReaders, hold, recvd, npc, ev, todo, nextEv,
                   tried, able, cacheAll, bcMore>>

\* The range blocks in the receive on the unbuffered channel (line 723).
WatchPark(w) ==
    /\ wpc[w] = "loop"
    /\ wpc' = [wpc EXCEPT ![w] = "recv"]
    /\ UNCHANGED <<watchers, muWriter, muPending, muReaders, hold, recvd, npc, ev, todo,
                   nextEv, tried, able, cacheAll, bcMore>>

\* The client goes away: the stream is cancelled or broken. WatchUsers does not
\* read stream.Context(): the only place where it looks at the stream is
\* stream.Send, so a stream that broke earlier shows as one that breaks while
\* the call is in its loop.
StreamCancel(w) ==
    /\ wpc[w] \in {"loop", "recv", "send"}
    /\ w \notin cancelled
    /\ cancelled' = cancelled \cup {w}
    /\ UNCHANGED <<watchers, muWriter, muPending, muReaders, wpc, hold, recvd, npc, ev,
                   todo, nextEv, tried, able, cacheAll, closed, panicked, prior>>

\* stream.Send succeeds: back to the range (lines 724, 723).
WatchSend(w) ==
    /\ wpc[w] = "send"
    /\ w \notin cancelled
    /\ hold' = [hold EXCEPT ![w] = 0]
    /\ wpc' = [wpc EXCEPT ![w] = "loop"]
    /\ UNCHANGED <<watchers, muWriter, muPending, muReaders, recvd, npc, ev, todo,
                   nextEv, tried, able, cacheAll, bcMore>>

\* stream.Send fails (or panics): WatchUsers returns, and the deferred function
\* calls s.mu.Lock() (lines 724-725, 714-716).
WatchSendFail(w) ==
    /\ wpc[w] = "send"
    /\ hold' = [hold EXCEPT ![w] = 0]
    /\ wpc' = [wpc EXCEPT ![w] = "cleanwait"]
    /\ muPending' = muPending \cup {w}
    /\ UNCHANGED <<watchers, muWriter, muReaders, recvd, npc, ev, todo, nextEv, tried,
                   able, cacheAll, bcMore>>

\* The deferred function has the lock and deletes the channel (716-717).
WatchCleanup(w) ==
    /\ wpc[w] = "cleanwait"
    /\ MuFree
    /\ muWriter' = w
    /\ muPending' = muPending \ {w}
    /\ watchers' = deleteWatcher(watchers, w)
    /\ wpc' = [wpc EXCEPT ![w] = "cunlock"]
    /\ UNCHANGED <<muReaders, hold, recvd, npc, ev, todo, nextEv, tried, able, cacheAll, bcMore>>

\* s.mu.Unlock() of line 718.
WatchCleanupUnlock(w) ==
    /\ wpc[w] = "cunlock"
    /\ muWriter' = NoLock
    /\ wpc' = [wpc EXCEPT ![w] = "close"]
    /\ UNCHANGED <<watchers, muPending, muReaders, hold, recvd, npc, ev, todo, nextEv,
                   tried, able, cacheAll, bcMore>>

\* close(updateChan) and the return of WatchUsers (line 719); close panics on a
\* channel that is closed already.
WatchClose(w) ==
    /\ wpc[w] = "close"
    /\ wpc' = [wpc EXCEPT ![w] = "done"]
    /\ closed' = closeChan(closed, w)
    /\ panicked' = IF w \in closed THEN panicked \cup {w} ELSE panicked
    /\ UNCHANGED <<watchers, muWriter, muPending, muReaders, hold, recvd, npc, ev, todo,
                   nextEv, tried, able, cacheAll, cancelled, prior>>

\* The deferred function of lines 714-720 is run once more for a channel it has
\* already removed and closed.
UnsubscribeAgain(w) ==
    /\ wpc[w] = "done"
    /\ w \notin panicked
    /\ wpc' = [wpc EXCEPT ![w] = "cleanwait"]
    /\ muPending' = muPending \cup {w}
    /\ UNCHANGED <<watchers, muWriter, muReaders, hold, recvd, npc, ev, todo, nextEv,
                   tried, able, cacheAll, bcMore>>

\* ----------------------------------------------- UserService: NotifyUpdate
\* A send on the channel of w can proceed: the channel is unbuffered (line 707),
\* so only when the receiver is blocked in its receive.
Deliverable(w) == wpc[w] = "recv"

\* Mutant of HasDefault: the select has no default case.
NoDefault == FALSE

\* The select of lines 744-748 has a default case.
HasDefault == TRUE

\* Mutant of Rest: the range ends at the first dropped update.
RestStopOnDrop(n, w) == IF Deliverable(w) THEN todo[n] \ {w} ELSE {}

\* The channels the range has yet to visit after w.
Rest(n, w) == todo[n] \ {w}

\* Mutant of Received: the update is put before the earlier ones.
ReceivedFirst(q, e) == <<e>> \o q

\* The receiver takes the update e from the channel, after those it took before.
Received(q, e) == Append(q, e)

\* NotifyUpdate is called with a new update, and calls s.mu.RLock() (line 741).
NotifyCall(n) ==
    /\ npc[n] = "idle"
    /\ nextEv < MaxEvents
    /\ nextEv' = nextEv + 1
    /\ ev' = [ev EXCEPT ![n] = nextEv + 1]
    /\ npc' = [npc EXCEPT ![n] = "rlock"]
    /\ prior' = [prior EXCEPT ![n] = Returned_ev]
    /\ UNCHANGED <<watchers, muWriter, muPending, muReaders, wpc, hold, recvd, todo,
                   tried, able, cacheAll, closed, panicked, cancelled>>

\* The read lock is acquired (no writer holds or waits for s.mu) and the range
\* over s.watchers begins (lines 741-743).
NotifyRLock(n) ==
    /\ npc[n] = "rlock"
    /\ muWriter = NoLock
    /\ muPending = {}
    /\ muReaders' = muReaders \cup {n}
    /\ todo' = [todo EXCEPT ![n] = watchers]
    /\ npc' = [npc EXCEPT ![n] = "range"]
    /\ UNCHANGED <<watchers, muWriter, muPending, wpc, hold, recvd, ev, nextEv, tried,
                   able, cacheAll, bcMore>>

\* One iteration of the range: the select sends to a waiting receiver, which
\* takes the update, or falls to the default case (lines 743-748).
NotifyTry(n) ==
    /\ npc[n] = "range"
    /\ \E w \in todo[n] :
          /\ Deliverable(w) \/ HasDefault
          /\ IF Deliverable(w)
             THEN /\ wpc' = [wpc EXCEPT ![w] = "send"]
                  /\ hold' = [hold EXCEPT ![w] = ev[n]]
                  /\ recvd' = [recvd EXCEPT ![w] = Received(@, ev[n])]
             ELSE UNCHANGED <<wpc, hold, recvd>>
          /\ todo' = [todo EXCEPT ![n] = Rest(n, w)]
          /\ tried' = [tried EXCEPT ![n] = @ \cup {w}]
          /\ able' = [able EXCEPT ![n] = IF wpc[w] = "recv" THEN @ \cup {w} ELSE @]
    /\ UNCHANGED <<watchers, muWriter, muPending, muReaders, npc, ev, nextEv, cacheAll, bcMore>>

\* The range is over: the deferred s.mu.RUnlock() and the return (742, 749).
NotifyRUnlock(n) ==
    /\ npc[n] = "range"
    /\ todo[n] = {}
    /\ muReaders' = muReaders \ {n}
    /\ npc' = [npc EXCEPT ![n] = "idle"]
    /\ ev' = [ev EXCEPT ![n] = 0]
    /\ tried' = [tried EXCEPT ![n] = {}]
    /\ able' = [able EXCEPT ![n] = {}]
    /\ prior' = [prior EXCEPT ![n] = {}]
    /\ UNCHANGED <<watchers, muWriter, muPending, wpc, hold, recvd, todo, nextEv,
                   cacheAll, closed, panicked, cancelled>>

\* ------------------------------------------------------ UserService: Spec
NextBroadcast ==
    \/ \E w \in Watchers : WatchCall(w)
    \/ \E w \in Watchers : WatchRegister(w)
    \/ \E w \in Watchers : WatchUnlock(w)
    \/ \E w \in Watchers : WatchPark(w)
    \/ \E w \in Watchers : StreamCancel(w)
    \/ \E w \in Watchers : WatchSend(w)
    \/ \E w \in Watchers : WatchSendFail(w)
    \/ \E w \in Watchers : WatchCleanup(w)
    \/ \E w \in Watchers : WatchCleanupUnlock(w)
    \/ \E w \in Watchers : WatchClose(w)
    \/ \E n \in Notifiers : NotifyCall(n)
    \/ \E n \in Notifiers : NotifyRLock(n)
    \/ \E n \in Notifiers : NotifyTry(n)
    \/ \E n \in Notifiers : NotifyRUnlock(n)

\* The service makes its one store with a ttl above zero (db.go, line 93).
InitBroadcast == Init /\ duration = 1

SpecBroadcast == InitBroadcast /\ [][NextBroadcast]_vars

\* The scheduler runs every goroutine that can run: a NotifyUpdate call takes
\* its next step, and a goroutine that holds or can take s.mu in write mode goes
\* on to its Unlock. Nothing is assumed of the consumers: a WatchUsers call may
\* stay outside its receive, or inside stream.Send, for ever.
FairBroadcast ==
    /\ \A n \in Notifiers :
          WF_vars(NotifyRLock(n)) /\ WF_vars(NotifyTry(n)) /\ WF_vars(NotifyRUnlock(n))
    /\ \A w \in Watchers :
          /\ WF_vars(WatchRegister(w)) /\ WF_vars(WatchUnlock(w))
          /\ WF_vars(WatchCleanup(w)) /\ WF_vars(WatchCleanupUnlock(w))

SpecBroadcastFair == InitBroadcast /\ [][NextBroadcast]_vars /\ FairBroadcast

\* Every goroutine that can run does, the consumers included: a WatchUsers call
\* reaches its receive, stream.Send returns, the deferred function runs to its
\* end. Nothing is assumed of the callers of NotifyUpdate or of the clients.
FairWatchers ==
    \A w \in Watchers :
        /\ WF_vars(WatchPark(w)) /\ WF_vars(WatchSend(w)) /\ WF_vars(WatchSendFail(w))
        /\ WF_vars(WatchClose(w))

SpecBroadcastLive ==
    InitBroadcast /\ [][NextBroadcast]_vars /\ FairBroadcast /\ FairWatchers

\* The deferred function of WatchUsers may be run again for a finished call.
NextUnsubscribe ==
    \/ NextBroadcast
    \/ \E w \in Watchers : UnsubscribeAgain(w)

SpecUnsubscribe == InitBroadcast /\ [][NextUnsubscribe]_vars

\* ------------------------------------------------- the request handlers
\* What makes a handler return before it reaches the collection: the method
\* check and the decoding of the body (HTTP), validation.User (add, update),
\* the empty id (delete), uuid.Validate (update, delete).
Faults(op, via) ==
    (IF via = "http" THEN {"method"} ELSE {})
    \cup (IF via = "http" /\ op # "deleteAll" THEN {"decode"} ELSE {})
    \cup (IF op \in {"add", "update"} THEN {"invalid"} ELSE {})
    \cup (IF op = "delete" THEN {"noid"} ELSE {})
    \cup (IF op \in {"update", "delete"} THEN {"baduuid"} ELSE {})

\* The requests: the well-formed ones, and one for each way of being refused.
Requests ==
    {[op |-> "add", via |-> v, fault |-> "none", id |-> 0, nick |-> n] :
        v \in {"http", "grpc"}, n \in Nicks}
    \cup {[op |-> "update", via |-> v, fault |-> "none", id |-> i, nick |-> n] :
        v \in {"http", "grpc"}, i \in Ids, n \in Nicks}
    \cup {[op |-> "delete", via |-> v, fault |-> "none", id |-> i, nick |-> ""] :
        v \in {"http", "grpc"}, i \in Ids}
    \cup {[op |-> "deleteAll", via |-> "http", fault |-> "none", id |-> 0, nick |-> ""]}
    \cup UNION {{[op |-> o, via |-> v, fault |-> f, id |-> 0, nick |-> ""] : f \in Faults(o, v)} :
                  o \in {"add", "update", "delete"}, v \in {"http", "grpc"}}
    \cup {[op |-> "deleteAll", via |-> "http", fault |-> "method", id |-> 0, nick |-> ""]}

\* db.GetUser without error: a document with the nickname, or the empty user
\* when FindOne has nothing to decode (mongo.ErrNoDocuments).
GetUser(n) ==
    IF \E u \in users : u.nick = n THEN {u \in users : u.nick = n} ELSE {NoUser}

\* The checks on the user found (lines 317, 395, 595, 640).
Rejects(r, existing) ==
    IF r.op = "add"
    THEN existing.nick # "" /\ existing.nick = r.nick
    ELSE existing.id # r.id

\* db.InsertUser
InsertUser(u, dbErr) ==
    [users |-> IF dbErr THEN users ELSE users \cup {u}, err |-> dbErr]

\* db.UpdateUser: FindOneAndUpdate on the _id; no document is an error.
UpdateUser(r, dbErr) ==
    LET hit == {u \in users : u.id = r.id}
    IN IF dbErr \/ hit = {}
       THEN [users |-> users, err |-> TRUE]
       ELSE [users |-> (users \ hit) \cup {[id |-> r.id, nick |-> r.nick]}, err |-> FALSE]

\* Mutant of DeleteUser: DeletedCount is not looked at.
DeleteUserAnyCount(i, dbErr) ==
    [users |-> IF dbErr THEN users ELSE {u \in users : u.id # i}, err |-> dbErr]

\* db.DeleteUser: DeleteOne on the _id; DeletedCount = 0 is an error.
DeleteUser(i, dbErr) ==
    LET hit == {u \in users : u.id = i}
    IN IF dbErr
       THEN [users |-> users, err |-> TRUE]
       ELSE [users |-> users \ hit, err |-> Cardinality(hit) = 0]

\* db.DeleteAllUsers: DeleteMany with the empty filter.
DeleteAllUsers(dbErr) ==
    [users |-> IF dbErr THEN users ELSE {}, err |-> dbErr]

\* Mutant of UpdateType: the delete handlers publish the type of an update.
UpdateTypeCopied(op) ==
    IF op = "add" THEN "CREATED"
    ELSE IF op = "deleteAll" THEN "ALL_DELETED" ELSE "UPDATED"

\* The update type each handler hands to NotifyUpdate.
UpdateType(op) ==
    IF op = "add" THEN "CREATED"
    ELSE IF op = "update" THEN "UPDATED"
    ELSE IF op = "delete" THEN "DELETED" ELSE "ALL_DELETED"

\* The handler returns with an error.
Fails(h) ==
    /\ hpc' = [hpc EXCEPT ![h] = "done"]
    /\ hres' = [hres EXCEPT ![h] = "error"]

\* A request arrives; the handler makes the checks that need no collection.
HandlerCall(h, r) ==
    /\ hpc[h] = "idle"
    /\ nReq < MaxReqs
    /\ nReq' = nReq + 1
    /\ hreq' = [hreq EXCEPT ![h] = r]
    /\ IF r.fault # "none"
       THEN Fails(h)
       ELSE /\ hpc' = [hpc EXCEPT ![h] = IF r.op \in {"add", "update"} THEN "lookup" ELSE "write"]
            /\ UNCHANGED hres
    /\ UNCHANGED <<users, nextId, spawned, published, writes, hwrite>>
    /\ UNCHANGED <<cacheVars, histVars, histMore, called, tornDown, bcVars, valVars>>

\* db.GetUser(nickname) and the check of the user found.
HandlerLookup(h) ==
    /\ hpc[h] = "lookup"
    /\ \E dbErr \in BOOLEAN :
          IF dbErr
          THEN Fails(h)
          ELSE \E existing \in GetUser(hreq[h].nick) :
                  IF Rejects(hreq[h], existing)
                  THEN Fails(h)
                  ELSE hpc' = [hpc EXCEPT ![h] = "write"] /\ UNCHANGED hres
    /\ UNCHANGED <<users, nextId, nReq, hreq, spawned, published, writes, hwrite>>
    /\ UNCHANGED <<cacheVars, histVars, histMore, called, tornDown, bcVars, valVars>>

\* The write: newUUID and db.InsertUser, db.UpdateUser, db.DeleteUser or
\* db.DeleteAllUsers.
HandlerWrite(h) ==
    /\ hpc[h] = "write"
    /\ \E dbErr \in BOOLEAN :
          LET r == hreq[h]
              new == [id |-> nextId + 1, nick |-> r.nick]
              w == IF r.op = "add" THEN InsertUser(new, dbErr)
                   ELSE IF r.op = "update" THEN UpdateUser(r, dbErr)
                   ELSE IF r.op = "delete" THEN DeleteUser(r.id, dbErr)
                   ELSE DeleteAllUsers(dbErr)
              i == IF r.op = "add" THEN new.id ELSE r.id
          IN /\ users' = w.users
             /\ IF w.err
                THEN /\ Fails(h)
                     /\ UNCHANGED <<nextId, hreq, writes, hwrite>>
                ELSE /\ hpc' = [hpc EXCEPT ![h] = "spawn"]
                     /\ hreq' = [hreq EXCEPT ![h].id = i]
                     /\ nextId' = IF r.op = "add" THEN nextId + 1 ELSE nextId
                     /\ writes' = Append(writes, [op |-> r.op, id |-> i, by |-> h])
                     /\ hwrite' = [hwrite EXCEPT ![h] = Len(writes) + 1]
                     /\ UNCHANGED hres
    /\ UNCHANGED <<nReq, spawned, published>>
    /\ UNCHANGED <<cacheVars, histVars, histMore, called, tornDown, bcVars, valVars>>

\* go func() { NotifyUpdate(id, type, user) }(), and the answer.
HandlerSpawn(h) ==
    /\ hpc[h] = "spawn"
    /\ spawned' = spawned \cup {[w |-> hwrite[h], id |-> hreq[h].id,
                                 kind |-> UpdateType(hreq[h].op)]}
    /\ hpc' = [hpc EXCEPT ![h] = "done"]
    /\ hres' = [hres EXCEPT ![h] = "ok"]
    /\ UNCHANGED <<users, nextId, nReq, hreq, published, writes, hwrite>>
    /\ UNCHANGED <<cacheVars, histVars, histMore, called, tornDown, bcVars, valVars>>

\* The goroutine a handler started calls NotifyUpdate.
GoNotify(e) ==
    /\ e \in spawned
    /\ spawned' = spawned \ {e}
    /\ published' = published \cup {e}
    /\ UNCHANGED <<users, nextId, nReq, hpc, hreq, hres, writes, hwrite>>
    /\ UNCHANGED <<cacheVars, histVars, histMore, called, tornDown, bcVars, valVars>>

\* The answer is out; the goroutine serves the next request.
HandlerReturn(h) ==
    /\ hpc[h] = "done"
    /\ hpc' = [hpc EXCEPT ![h] = "idle"]
    /\ hreq' = [hreq EXCEPT ![h] = NoReq]
    /\ hres' = [hres EXCEPT ![h] = ""]
    /\ hwrite' = [hwrite EXCEPT ![h] = 0]
    /\ UNCHANGED <<users, nextId, nReq, spawned, published, writes>>
    /\ UNCHANGED <<cacheVars, histVars, histMore, called, tornDown, bcVars, valVars>>

NextHandlers ==
    \/ \E h \in Handlers, r \in Requests : HandlerCall(h, r)
    \/ \E h \in Handlers : HandlerLookup(h)
    \/ \E h \in Handlers : HandlerWrite(h)
    \/ \E h \in Handlers : HandlerSpawn(h)
    \/ \E e \in spawned : GoNotify(e)
    \/ \E h \in Handlers : HandlerReturn(h)

SpecHandlers == InitBroadcast /\ [][NextHandlers]_vars

\* ------------------------------------------------------- validation.User
\* Strings are sequences of characters; a character outside ASCII is written
\* by its code point and takes two bytes in UTF-8.
AsciiUpper == {"A", "B", "C", "D", "E", "F", "G", "H", "I", "J", "K", "L", "M",
               "N", "O", "P", "Q", "R", "S", "T", "U", "V", "W", "X", "Y", "Z"}
AsciiLower == {"a", "b", "c", "d", "e", "f", "g", "h", "i", "j", "k", "l", "m",
               "n", "o", "p", "q", "r", "s", "t", "u", "v", "w", "x", "y", "z"}
Digits == {"0", "1", "2", "3", "4", "5", "6", "7", "8", "9"}
WideLower == {"U+00E4", "U+00F6"}      \* a-umlaut, o-umlaut

\* unicode.IsUpper, unicode.IsLower, unicode.IsDigit
IsUpper(c) == c \in AsciiUpper
IsLower(c) == c \in AsciiLower \cup WideLower
IsDigit(c) == c \in Digits

\* The bytes of the UTF-8 encoding of a character.
Width(c) == IF c \in WideLower THEN 2 ELSE 1

\* len(password): the length of the string in bytes.
RECURSIVE ByteLen(_)
ByteLen(str) == IF str = << >> THEN 0 ELSE Width(Head(str)) + ByteLen(Tail(str))

MinPasswordLen == 8

isValidName(name) == name # ""

isValidPassword(password) ==
    LET hasMinLen == ByteLen(password) >= MinPasswordLen
        hasUpper == \E i \in DOMAIN password : IsUpper(password[i])
        hasLower == \E i \in DOMAIN password : IsLower(password[i])
        hasNumber == \E i \in DOMAIN password : IsDigit(password[i])
    IN hasMinLen /\ hasUpper /\ hasLower /\ hasNumber

\* The character classes of emailRegex.
LocalChar(c) == c \in AsciiLower \cup AsciiUpper \cup Digits \cup {".", "_", "%", "+", "-"}
DomainChar(c) == c \in AsciiLower \cup AsciiUpper \cup Digits \cup {".", "-"}
TldChar(c) == c \in AsciiLower \cup AsciiUpper

\* emailRegex.MatchString: ^[a-zA-Z0-9._%+-]+@[a-zA-Z0-9.-]+\.[a-zA-Z]{2,}$
isValidEmail(email) ==
    \E i, j \in DOMAIN email :
        /\ i > 1 /\ email[i] = "@"
        /\ \A k \in 1..(i - 1) : LocalChar(email[k])
        /\ j > i + 1 /\ email[j] = "."
        /\ \A k \in (i + 1)..(j - 1) : DomainChar(email[k])
        /\ Len(email) - j >= 2
        /\ \A k \in (j + 1)..Len(email) : TldChar(email[k])

\* validation.User
User(firstName, lastName, nickName, password, country, email) ==
    IF ~isValidName(firstName) THEN "invalid first name"
    ELSE IF ~isValidName(lastName) THEN "invalid last name"
    ELSE IF nickName = "" THEN "invalid nickname"
    ELSE IF ~isValidPassword(password) THEN "invalid password"
    ELSE IF ~isValidEmail(email) THEN "invalid email"
    ELSE IF country = "" THEN "invalid country"
    ELSE Nil

\* The arguments of the calls followed: the strings of TestUser and strings at
\* the edges of each rule.
Passwords ==
    {<<"P", "a", "s", "s", "w", "o", "r", "d", "1">>,
     <<"Q", "u", "a", "s", "W", "e", "x", "1">>,
     <<"s", "h", "o", "r", "t">>,
     <<"n", "o", "f", "o", "r", "c", "e", "f", "i", "e", "l", "d", "1">>,
     <<"P", "a", "s", "s", "w", "o", "1">>,
     <<"P", "A", "S", "S", "W", "O", "R", "D", "1">>,
     <<"P", "a", "s", "s", "w", "o", "r", "d", "d">>,
     <<"P", "U+00E4", "s", "s", "w", "U+00F6", "1">>,
     << >>}
Emails ==
    {<<"j", "o", "h", "n", ".", "d", "o", "e", "@", "c", "s", "g", "o", ".", "c", "o", "m">>,
     <<"i", "n", "v", "a", "l", "i", "d", "-", "e", "m", "a", "i", "l">>,
     <<"y", "u", "r", "n", "e", "r", "o", ".", "d", "o", "t", "a">>,
     <<"a", "@", "b", ".", "c">>,
     <<"@", "c", "s", "g", "o", ".", "c", "o", "m">>,
     <<"a", "@", "b", ".", "c", "o">>,
     <<"a", "@", ".", "c", "o">>,
     <<"j", "o", " ", "h", "n", "@", "x", ".", "y", ".", "z", "z">>,
     <<"j", "o", "h", "n", "@", "x", ".", "y", ".", "z", "z">>,
     << >>}
UserArgs ==
    [firstName : {"", "John"}, lastName : {"", "Doe"}, nickName : {"", "jdoe"},
     password : Passwords, country : {"", "USA"}, email : Emails]

InitValidate ==
    InitRest /\ duration = 1 /\ vin \in UserArgs /\ vout = "pending" /\ NoQuery

\* The call returns.
Validate ==
    /\ vout = "pending"
    /\ vout' = User(vin.firstName, vin.lastName, vin.nickName, vin.password,
                    vin.country, vin.email)
    /\ UNCHANGED <<vin, qin, qout, users, nextId, nReq, hpc, hreq, hres, spawned,
                   published, writes, hwrite>>
    /\ UNCHANGED <<cacheVars, histVars, histMore, called, tornDown, bcVars>>

SpecValidate == InitValidate /\ [][Validate]_vars

\* --------------------------------------------------- queries for users
MaxPage == 1000
MaxLimit == 50

DigitChars == <<"0", "1", "2", "3", "4", "5", "6", "7", "8", "9">>
DigitVal(c) == (CHOOSE i \in 1..10 : DigitChars[i] = c) - 1

\* The number a string of decimal digits writes.
RECURSIVE Decimal(_)
Decimal(str) ==
    IF str = << >> THEN 0
    ELSE Decimal(SubSeq(str, 1, Len(str) - 1)) * 10 + DigitVal(str[Len(str)])

\* strconv.Atoi: an optional sign and one decimal digit or more; anything else
\* (the empty string of a missing parameter included) is an error.
Atoi(str) ==
    LET signed == str # << >> /\ Head(str) \in {"+", "-"}
        body == IF signed THEN Tail(str) ELSE str
    IN IF body = << >> \/ \E i \in DOMAIN body : ~IsDigit(body[i])
       THEN [n |-> 0, err |-> TRUE]
       ELSE [n |-> IF signed /\ Head(str) = "-" THEN 0 - Decimal(body) ELSE Decimal(body),
             err |-> FALSE]

\* db.GetUsersFiltered: the skip and the limit of the find.
GetUsersFiltered(page, pageSize) ==
    [page |-> page, limit |-> pageSize, skip |-> (page - 1) * pageSize]

\* getUsersHandler: the page and the limit of the URL (lines 242-249, 259).
getUsersHandler(pageStr, limitStr) ==
    LET p == Atoi(pageStr)
        l == Atoi(limitStr)
        page == IF p.err \/ p.n < 1 \/ p.n > MaxPage THEN 1 ELSE p.n
        limit == IF l.err \/ l.n < 1 \/ l.n > MaxLimit THEN 1 ELSE l.n
    IN GetUsersFiltered(page, limit)

\* UserService.GetUsers: the page and the limit of the request (lines 560-567).
GetUsers(reqPage, reqLimit) ==
    LET page1 == IF reqPage < 1 \/ reqPage > MaxPage THEN 1 ELSE reqPage
        page2 == IF reqLimit < 1 \/ reqLimit > MaxLimit THEN 1 ELSE page1
    IN GetUsersFiltered(page2, reqLimit)

\* The values a page or a limit is given: missing, not a number, below, at and
\* above each end of the two ranges.
PageStrings ==
    {<< >>, <<"a", "b", "c">>, <<"-", "1">>, <<"0">>, <<"1">>, <<"2">>, <<"5", "0">>,
     <<"5", "1">>, <<"1", "0", "0", "0">>, <<"1", "0", "0", "1">>, <<"+", "5">>,
     <<" ", "7">>}
PageNumbers == {-1, 0, 1, 2, 50, 51, 1000, 1001}
Queries ==
    [via : {"http"}, page : PageStrings, limit : PageStrings]
    \cup [via : {"grpc"}, page : PageNumbers, limit : PageNumbers]

InitQuery ==
    InitRest /\ duration = 1 /\ NoValidation /\ qin \in Queries /\ qout = << >>

\* The HTTP handler serves the query.
QueryHttp ==
    /\ qout = << >> /\ qin.via = "http"
    /\ qout' = <<getUsersHandler(qin.page, qin.limit)>>
    /\ UNCHANGED <<qin, vin, vout, users, nextId, nReq, hpc, hreq, hres, spawned,
                   published, writes, hwrite>>
    /\ UNCHANGED <<cacheVars, histVars, histMore, called, tornDown, bcVars>>

\* The gRPC method serves the query.
QueryGrpc ==
    /\ qout = << >> /\ qin.via = "grpc"
    /\ qout' = <<GetUsers(qin.page, qin.limit)>>
    /\ UNCHANGED <<qin, vin, vout, users, nextId, nReq, hpc, hreq, hres, spawned,
                   published, writes, hwrite>>
    /\ UNCHANGED <<cacheVars, histVars, histMore, called, tornDown, bcVars>>

NextQuery == QueryHttp \/ QueryGrpc

SpecQuery == InitQuery /\ [][NextQuery]_vars

\* ================================================================ claims
\* What the loader of p's call yields for its key.
Own(p) == Apply(fn[p], key[p])

\* C1 (P1, memoization): a call that starts inside the ttl window of a store
\* (seen: the store, at the first lookup), and reaches its return inside that
\* window with no Clear since, has not invoked its loader and returns the value
\* that store produced.
C1_Memoization ==
    \A p \in Procs :
        (/\ pc[p] = "ret"
         /\ seen[p] # ZeroItem
         /\ stored[key[p]] = seen[p]
         /\ now < seen[p].created + duration)
        => /\ loads[p] = 0
           /\ Result(p) = [val |-> seen[p].data, err |-> Nil]

\* C2 (P2, expiry): a call whose first lookup finds an entry of age >= ttl
\* goes to the age check, invokes the loader exactly once there, and returns
\* the loaded value; on success the map holds the new item, created at the
\* time of that load; on failure the call returns the loader's error.
C2_Expiry ==
    \A p \in Procs :
        first[p] = "expired"
        => /\ pc[p] \in {"l3", "a3", "ret"}
           /\ pc[p] = "ret"
              => /\ loads[p] = 1
                 /\ Result(p) = [val |-> Own(p).val, err |-> Own(p).err]
                 /\ err[p] = Nil
                    => /\ data[key[p]] = item[p]
                       /\ item[p].created = loadedAt[p]

C2_Witness ==
    \E p \in Procs :
        /\ duration > 0
        /\ first[p] = "expired"
        /\ pc[p] = "ret"
        /\ err[p] = Nil
        /\ loads[p] = 1
        /\ data[key[p]].created = now

\* C3 (P3, load collapsing): the loader is not invoked again by a call that
\* was waiting on a miss of the key while another call's load of that key
\* ended (with an error, or with an entry that is still fresh), for a ttl > 0.
C3_LoadCollapsing ==
    \A q \in Procs : duration > 0 => ~dup[q]

\* C4 (P4, error non-poisoning): when the loader has failed, the call returns
\* the loader's error with the zero value, and the map is what it was when the
\* call took the lock under which it invoked the loader.
C4_ErrorNonPoisoning ==
    \A p \in Procs :
        (pc[p] \in {"u2", "ret"} /\ err[p] # Nil)
        => /\ data = snap[p]
           /\ Own(p).err # Nil
           /\ Result(p) = [val |-> ZeroValue, err |-> Own(p).err]

\* A reload has failed and the expired entry is still in the map.
C4_Witness ==
    \E p \in Procs :
        /\ pc[p] = "ret" /\ err[p] # Nil /\ first[p] = "expired"
        /\ key[p] \in DOMAIN data /\ ReachedTtl(data[key[p]])

\* A load on an absent key has failed and the key is still absent.
C4_WitnessAbsent ==
    \E p \in Procs :
        pc[p] = "u2" /\ err[p] # Nil /\ key[p] \notin DOMAIN data

\* C5 (Scenario B): a call invokes the loader at most once; and a call whose
\* first lookup follows a failed load of its absent key, with no other call's
\* load of that key ending while it waits, invokes the loader exactly once
\* and returns what that invocation yields.
C5_NoRetryNoErrorCache ==
    \A p \in Procs :
        /\ loads[p] <= 1
        /\ (sawFail[p] /\ waited[p] = "" /\ pc[p] \in {"u2", "ret"})
           => /\ loads[p] = 1
              /\ Result(p) = [val |-> Own(p).val, err |-> Own(p).err]

C5_Witness ==
    \E p \in Procs :
        sawFail[p] /\ pc[p] = "ret" /\ loads[p] = 1 /\ err[p] = Nil

C5_WitnessAgain ==
    \E p \in Procs :
        sawFail[p] /\ pc[p] = "u2" /\ loads[p] = 1 /\ err[p] # Nil

\* C6 (key independence): while a loader runs for one key, a call on another
\* key that is at one of its lock acquisitions can take its next step.
C6_KeyIndependence ==
    \A p, q \in Procs :
        (pc[p] \in {"a2", "a3"} /\ pc[q] \in {"l2", "l3"} /\ key[q] # key[p])
        => ENABLED (Lock2(q) \/ Lock3(q))

\* C7 as stated: each call returns its own loader's value without error, and
\* once all have returned the map holds one entry per key with that value.
AllReturned == called = Procs /\ \A p \in Procs : pc[p] = "idle"

ReturnsOwn ==
    \A p \in Procs :
        /\ pc[p] \in {"u2", "ret"} => err[p] = Nil
        /\ pc[p] = "ret" => Result(p) = [val |-> Apply(LoaderOf[p], KeyOf[p]).val,
                                          err |-> Nil]

C7_DistinctKeysOriginal ==
    /\ ReturnsOwn
    /\ AllReturned
       => \A p \in Procs :
            /\ KeyOf[p] \in DOMAIN data
            /\ data[KeyOf[p]].data = Apply(LoaderOf[p], KeyOf[p]).val

\* C7 as amended: each call returns its own loader's value without error; once
\* all have returned, every entry of the map is the one its key's call loaded,
\* and the entry of each key is in the map for as long as its age is below the
\* ttl.
C7_DistinctKeys ==
    /\ ReturnsOwn
    /\ AllReturned
       => /\ \A k \in DOMAIN data :
                \E p \in Procs :
                    k = KeyOf[p] /\ data[k].data = Apply(LoaderOf[p], k).val
          /\ \A k \in Keys : stored[k] # ZeroItem => k \in DOMAIN data /\ data[k] = stored[k]

C7_Witness ==
    /\ AllReturned
    /\ now > 0
    /\ \A p \in Procs : KeyOf[p] \in DOMAIN data /\ stored[KeyOf[p]] # ZeroItem

\* How many times the update e is in the sequence s.
Count(s, e) == Cardinality({i \in DOMAIN s : s[i] = e})

\* The range of the NotifyUpdate call n is over (its RUnlock is what remains).
RangeOver(n) == npc[n] = "range" /\ todo[n] = {}

\* C8 (P5, fan-out and isolation): when the range of a NotifyUpdate call is
\* over, the call has attempted a send on every channel in the watchers set;
\* every watcher whose receiver was waiting when it was tried has received the
\* update exactly once, and no other watcher has received it.
C8_FanOut ==
    \A n \in Notifiers :
        RangeOver(n)
        => /\ tried[n] = watchers
           /\ \A w \in Watchers :
                 Count(recvd[w], ev[n]) = IF w \in watchers /\ w \in able[n] THEN 1 ELSE 0

C8_Witness ==
    \E n \in Notifiers : \E w1, w2 \in watchers :
        /\ RangeOver(n)
        /\ w1 \in able[n] /\ Count(recvd[w1], ev[n]) = 1
        /\ w2 \in tried[n] \ able[n] /\ Count(recvd[w2], ev[n]) = 0

\* C9 (P6, Publish never blocks): every NotifyUpdate call returns, whatever the
\* WatchUsers calls do about receiving.
C9_PublishReturns ==
    \A n \in Notifiers : (npc[n] # "idle") ~> (npc[n] = "idle")

\* A call's range is over, another watcher has received its update, while a
\* registered watcher is still inside stream.Send with an earlier update.
C9_Witness ==
    \E n \in Notifiers : \E w1, w2 \in watchers :
        /\ RangeOver(n)
        /\ wpc[w1] = "send" /\ hold[w1] # 0 /\ hold[w1] # ev[n]
        /\ hold[w2] = ev[n]

\* C10 (Scenario C): the first update published (no earlier update can be
\* pending in any queue) is received by, or left pending for, every registered
\* watcher, wherever its consumer is at that instant.
C10_BoundedQueue ==
    \A n \in Notifiers :
        (RangeOver(n) /\ ev[n] = 1)
        => \A w \in watchers : Count(recvd[w], 1) = 1

\* The deferred function of w has deleted its channel from the watchers.
Removed(w) == wpc[w] \in {"cunlock", "close", "done"}

\* C11 (Scenario D): once the cleanup of a watcher has removed its channel, a
\* NotifyUpdate call in progress (it took its read lock after the removal)
\* neither has the channel in its range, nor has tried it, nor has delivered
\* its update to it.
C11_NoDeliveryAfterUnsubscribe ==
    \A w \in Watchers : \A n \in Notifiers :
        (Removed(w) /\ npc[n] # "idle")
        => /\ w \notin todo[n]
           /\ w \notin tried[n]
           /\ Count(recvd[w], ev[n]) = 0

\* A watcher that was served is removed, and a later call serves the other.
C11_Witness ==
    \E n \in Notifiers : \E w1, w2 \in Watchers :
        /\ Removed(w1) /\ recvd[w1] # << >>
        /\ RangeOver(n)
        /\ w2 \in able[n] /\ Count(recvd[w2], ev[n]) = 1

\* C12 (membership): every channel in the watchers is open and belongs to a
\* WatchUsers call between its registration and its cleanup; a closed channel
\* is not in the watchers; no channel left in the range of a NotifyUpdate call
\* is closed.
C12_Membership ==
    /\ \A w \in watchers :
          w \notin closed /\ wpc[w] \in {"unlock", "loop", "recv", "send", "cleanwait"}
    /\ \A w \in closed : w \notin watchers
    /\ \A n \in Notifiers : \A w \in todo[n] : w \notin closed /\ w \in watchers

C12_Witness ==
    \E n \in Notifiers : \E w1, w2 \in Watchers :
        /\ w1 \in closed
        /\ w2 \in watchers
        /\ npc[n] = "range" /\ w2 \in todo[n]

\* Where the update e is in the sequence q.
Pos(q, e) == CHOOSE i \in DOMAIN q : q[i] = e

\* C13 (ordering): a watcher that has received the update of a NotifyUpdate
\* call, and an update whose call had returned when that call started, has
\* received the earlier one first.
C13_Ordering ==
    \A n \in Notifiers : \A w \in Watchers : \A e1 \in prior[n] :
        (Count(recvd[w], e1) > 0 /\ Count(recvd[w], ev[n]) > 0)
        => Pos(recvd[w], e1) < Pos(recvd[w], ev[n])

C13_Witness ==
    \E n \in Notifiers : \E w \in Watchers : \E e1 \in prior[n] :
        Count(recvd[w], e1) = 1 /\ Count(recvd[w], ev[n]) = 1

\* C14 (no replay): what a watcher has received changes only by a NotifyUpdate
\* call that holds the read lock handing it its update, the watcher being in
\* the watchers before and after.
C14_NoReplay ==
    [][\A w \in Watchers :
          recvd'[w] # recvd[w]
          => /\ w \in watchers /\ w \in watchers'
             /\ \E n \in Notifiers :
                   /\ npc[n] = "range" /\ n \in muReaders
                   /\ recvd'[w] = Append(recvd[w], ev[n])]_vars

\* A watcher registers after an update was published to another watcher, and
\* has received nothing.
C14_Witness ==
    \E w1, w2 \in Watchers :
        /\ wpc[w1] = "unlock" /\ recvd[w1] = << >>
        /\ \E e \in Returned_ev : Count(recvd[w2], e) = 1

C16_GuaranteedRelease ==
    \A w \in Watchers :
        wpc[w] = "done" => w \notin watchers /\ w \in closed /\ w \notin panicked

C16_Witness ==
    \E w1, w2 \in Watchers :
        /\ wpc[w1] = "done" /\ w1 \in closed /\ w1 \notin watchers
        /\ w2 \in watchers

\* C17 (consumer termination): a watcher whose stream is cancelled or broken is
\* eventually out of the watchers, whether or not NotifyUpdate is called again
\* (the behaviours that end because no call is left to make are set aside).
C17_ConsumerTermination ==
    \A w \in Watchers :
        (w \in cancelled) ~> (w \notin watchers \/ nextEv = MaxEvents)

\* C18 (Clear): a step that clears empties the map and leaves the ttl and the
\* cleanUpJob as they are; the map stays empty until something is stored; and a
\* call whose first lookup follows the Clear, with nothing stored since and no
\* other call's load of its key ending while it waits, invokes its loader once
\* and returns what it yields.
C18_Clear ==
    /\ [](cleared => data = << >>)
    /\ [](\A p \in Procs :
            (sawClear[p] /\ waited[p] = "" /\ pc[p] \in {"u2", "ret"})
            => /\ loads[p] = 1
               /\ Result(p) = [val |-> Own(p).val, err |-> Own(p).err])
    /\ [][(cleared' /\ ~cleared)
          => /\ data' = << >>
             /\ UNCHANGED <<duration, cleanUpActive, spc, writer, readers>>]_vars

\* After a Clear of a map that had the key, the next call has loaded it again.
C18_Witness ==
    \E p \in Procs :
        /\ sawClear[p] /\ waited[p] = "" /\ pc[p] = "ret"
        /\ loads[p] = 1 /\ err[p] = Nil
        /\ data[key[p]] = item[p]

\* C19 (sweep pass): from its pass to its Unlock the cleanUpJob holds the lock
\* in write mode, no GetData call holding it in any mode; and no entry is left
\* in the map whose age, at the clock sample of the pass, is >= ttl.
C19_SweepPass ==
    spc = "unlock"
    => /\ writer = "cleanUpJob" /\ readers = {}
       /\ \A p \in Procs : pc[p] \notin {"r1", "a2", "u2", "a3", "ret"}
       /\ swept.at \in 0..now
       /\ \A k \in DOMAIN data : swept.at - data[k].created < duration

\* A pass has deleted an entry and kept another.
C19_Witness ==
    /\ spc = "unlock"
    /\ duration > 0
    /\ swept.deleted # {}
    /\ data # << >>

\* C20 (eventual eviction): an entry whose age has reached the ttl is
\* eventually out of the map, or replaced by an entry created later.
C20_EventualEviction ==
    \A k \in Keys : \A c \in 0..MaxTime :
        (k \in DOMAIN data /\ data[k].created = c /\ now - c >= duration)
        ~> (k \notin DOMAIN data \/ data[k].created > c)

\* The cleanUpJob has deleted the entry of key1, which no call was reading.
C20_Witness ==
    /\ spc = "unlock"
    /\ "key1" \in swept.deleted
    /\ called = {"g1"}
    /\ pc["g1"] = "idle"

\* The entry of key k, if the map m has one, has an age below the ttl at time t.
FreshIn(m, k, t) == k \in DOMAIN m => t - m[k].created < duration

\* C21 as stated (mapping validity): a sweep pass leaves no entry of age >= ttl,
\* and whenever a GetData call reaches its return, the entry of its key, if the
\* map has one, is of age < ttl.
C21_MappingValidityOriginal ==
    [][/\ (spc = "lock" /\ spc' = "unlock") => \A k \in Keys : FreshIn(data', k, now)
       /\ \A p \in Procs :
             (pc[p] # "ret" /\ pc'[p] = "ret") => FreshIn(data', key[p], now)]_vars

\* C21 as amended: a sweep pass leaves no entry of age >= ttl; for a ttl > 0 the
\* entry a GetData call stores is in the map with an age < ttl; and when the age
\* check of a call finds the item it looked up fresh, the entry of its key, if
\* the map has one, is of age < ttl.
C21_MappingValidity ==
    [][/\ (spc = "lock" /\ spc' = "unlock") => \A k \in Keys : FreshIn(data', k, now)
       /\ \A p \in Procs :
             /\ (pc[p] \in {"a2", "a3"} /\ pc'[p] # pc[p] /\ err'[p] = Nil /\ duration > 0)
                => key[p] \in DOMAIN data' /\ FreshIn(data', key[p], now)
             /\ (pc[p] = "l3" /\ pc'[p] = "ret" /\ ok[p])
                => FreshIn(data', key[p], now)]_vars

\* The age check of a call has found its item fresh, after the clock has moved,
\* while the other key's entry has reached the ttl.
C21_Witness ==
    \E p \in Procs : \E k \in DOMAIN data :
        /\ pc[p] = "ret" /\ ok[p] /\ loads[p] = 0 /\ duration > 0
        /\ key[p] \in DOMAIN data /\ FreshIn(data, key[p], now)
        /\ k # key[p] /\ ~FreshIn(data, k, now)

\* C22 (zero ttl): in a store made with ttl 0, a GetData call invokes its loader
\* at most once, and when it is about to return it has invoked it exactly once
\* and returns what that invocation yielded, whatever its lookups found.
C22_ZeroTtl ==
    duration = 0
    => \A p \in Procs :
          /\ loads[p] <= 1
          /\ (pc[p] = "ret" \/ (pc[p] = "u2" /\ err[p] # Nil))
             => /\ loads[p] = 1
                /\ Result(p) = [val |-> Own(p).val, err |-> Own(p).err]

\* With ttl 0, a call whose first lookup found an entry has invoked its loader
\* and returns that loader's value.
C22_Witness ==
    \E p \in Procs :
        /\ duration = 0
        /\ pc[p] = "ret" /\ first[p] = "expired" /\ ok[p]
        /\ loads[p] = 1 /\ err[p] = Nil
        /\ Result(p).val = Own(p).val

\* C23 (sweep shutdown): once the store is torn down the cleanUpJob goroutine
\* ends, and stays ended.
C23_SweepShutdown ==
    tornDown ~> [](spc = "done")

\* C24 (exclusive mutation): the write lock has one holder at a time and no reader
\* beside it; a call inside a section that mutates the map is that holder; and
\* every step that changes the map is made by the holder of the write lock
\* (a GetData call inside addData, the cleanUpJob in its pass, Clear) with no
\* holder of the read lock before or after.
C24_ExclusiveMutation ==
    /\ [](/\ writer # NoLock => readers = {}
          /\ \A p \in Procs : pc[p] \in {"a2", "u2", "a3", "ret"} => writer = p
          /\ \A p \in Procs : p \in readers <=> pc[p] = "r1"
          /\ spc = "unlock" => writer = "cleanUpJob")
    /\ [][data' # data
          => /\ readers = {} /\ readers' = {}
             /\ \/ \E p \in Procs : writer = p /\ writer' = p /\ pc[p] \in {"a2", "a3"}
                \/ writer = NoLock /\ writer' = "cleanUpJob" /\ spc = "lock"
                \/ writer = NoLock /\ writer' = NoLock /\ data' = << >>]_vars

\* A call has stored an entry under the lock while the other call and the
\* cleanUpJob wait for the lock.
C24_Witness ==
    \E p, q \in Procs :
        /\ pc[p] = "u2" /\ err[p] = Nil /\ key[p] \in DOMAIN data
        /\ q # p /\ pc[q] \in {"l2", "l3"}
        /\ spc = "lock"

\* The events of the goroutines started so far, published or about to be.
Events == spawned \cup published

\* C25 (events follow successful writes only): every event comes from one write
\* the collection carried out and has that write's id and the type of its
\* operation; no two events come from the same write; every write has its event,
\* or its handler is about to start the goroutine; and a request answered with an
\* error has made no write and has no event.
C25_EventsFollowWrites ==
    /\ \A e \in Events :
          /\ e.w \in 1..Len(writes)
          /\ e.id = writes[e.w].id
          /\ e.kind = CASE writes[e.w].op = "add" -> "CREATED"
                        [] writes[e.w].op = "update" -> "UPDATED"
                        [] writes[e.w].op = "delete" -> "DELETED"
                        [] writes[e.w].op = "deleteAll" -> "ALL_DELETED"
    /\ \A e1, e2 \in Events : e1.w = e2.w => e1 = e2
    /\ \A w \in 1..Len(writes) :
          \/ \E e \in Events : e.w = w
          \/ \E h \in Handlers : hpc[h] = "spawn" /\ hwrite[h] = w
    /\ \A h \in Handlers :
          /\ hres[h] = "error" => hwrite[h] = 0 /\ hpc[h] = "done"
          /\ hres[h] = "ok" => hwrite[h] # 0 /\ \E e \in Events : e.w = hwrite[h]

\* A delete has been published, a second write has its goroutine started, and a
\* well-formed request has been answered with an error.
C25_Witness ==
    /\ \E e \in published : e.kind = "DELETED"
    /\ \E e \in spawned : e.kind # "DELETED"
    /\ \E h \in Handlers : hres[h] = "error" /\ hreq[h].fault = "none"

\* C26 (no nickname clashes on add): no two documents of the collection have
\* the same nickname.
C26_NoNicknameClash ==
    \A u, v \in users : u.nick = v.nick => u = v

\* C27 (delete of a missing user): a delete whose id matches no document fails,
\* leaves the collection as it is and starts no goroutine; one whose id matches
\* removes the document and goes on to publish, unless the collection reports
\* an error; and a delete handler answers "ok" exactly when a DELETED event with
\* its id has come from its write.
C27_DeleteMissing ==
    /\ [](\A h \in Handlers :
            (hpc[h] = "done" /\ hreq[h].op = "delete")
            => (hres[h] = "ok"
                <=> \E e \in Events :
                       e.w = hwrite[h] /\ e.kind = "DELETED" /\ e.id = hreq[h].id))
    /\ [][\A h \in Handlers :
            (hpc[h] = "write" /\ hreq[h].op = "delete" /\ hpc'[h] # "write")
            => IF \E u \in users : u.id = hreq[h].id
               THEN \/ users' = users /\ hpc'[h] = "done" /\ hres'[h] = "error"
                    \/ /\ users' = {u \in users : u.id # hreq[h].id}
                       /\ hpc'[h] = "spawn"
               ELSE /\ users' = users
                    /\ hpc'[h] = "done" /\ hres'[h] = "error" /\ hwrite'[h] = 0
                    /\ spawned' = spawned /\ published' = published]_vars

\* A delete of an id that no document ever had has been answered with an error,
\* with the user stored before it still in the collection.
C27_Witness ==
    \E h \in Handlers :
        /\ hpc[h] = "done" /\ hreq[h].op = "delete" /\ hreq[h].fault = "none"
        /\ hreq[h].id > nextId
        /\ hres[h] = "error"
        /\ users # {}
        /\ \E e \in published : e.kind = "CREATED"

\* The password rule as the claim has it: at least eight characters, with an
\* upper-case letter, a lower-case letter and a digit among them.
PasswordOk(password) ==
    /\ Len(password) >= 8
    /\ \E i \in DOMAIN password : IsUpper(password[i])
    /\ \E i \in DOMAIN password : IsLower(password[i])
    /\ \E i \in DOMAIN password : IsDigit(password[i])

WaitedOnAbsent(q) == first[q] = "absent" /\ waited[q] = "ok"

\* C29 as stated (collapsing on an absent key): a call that waited on the miss
\* while another call loaded the key with success, and whose second lookup has
\* found the entry, does not invoke its loader.
C29_CollapseAbsentOriginal ==
    \A q \in Procs : (WaitedOnAbsent(q) /\ ok[q]) => loads[q] = 0

\* C29 (collapsing on an absent key): a call that waited on the miss while
\* another call loaded the key with success invokes its loader only when its
\* second lookup finds the key gone from the map (line 313) or when the entry
\* that lookup found has reached the ttl (line 327); otherwise it observes the
\* entry in the map and returns that entry's value without error.
C29_CollapseAbsent ==
    \A q \in Procs :
        WaitedOnAbsent(q)
        => /\ pc[q] = "a2" => key[q] \notin DOMAIN data
           /\ pc[q] = "a3" => ReachedTtl(item[q])
           /\ (pc[q] = "u2" /\ loads[q] = 0)
              => key[q] \in DOMAIN data /\ item[q] = data[key[q]]
           /\ (pc[q] = "ret" /\ loads[q] = 0)
              => /\ err[q] = Nil
                 /\ item[q].key = key[q]
                 /\ Result(q) = [val |-> item[q].data, err |-> Nil]

\* With a ttl above zero, a call that waited on the miss returns, with no load
\* of its own, the value another call's loader produced, that entry being
\* younger than the ttl.
C29_Witness ==
    \E q \in Procs :
        /\ duration > 0
        /\ WaitedOnAbsent(q)
        /\ pc[q] = "ret" /\ loads[q] = 0
        /\ ~ReachedTtl(item[q])
        /\ Own(q).err = Nil /\ item[q].data # Own(q).val

\* C30 (collapsing on an expired entry), for a ttl above zero: a call whose
\* first lookup found the entry expired, and which was waiting for the lock of
\* line 325 when another call's reload of the key succeeded, invokes its loader
\* only if the entry now in the map is gone or has itself reached the ttl.
C30_CollapseExpired ==
    \A q \in Procs :
        (duration > 0 /\ first[q] = "expired" /\ waited[q] = "ok" /\ pc[q] = "a3")
        => (key[q] \notin DOMAIN data \/ ReachedTtl(data[key[q]]))

\* C31 (shared failure): a call that was waiting on a miss of the key (absent
\* at line 307, or expired) when another call's load of that key failed does
\* not invoke its loader, and returns an error.
C31_SharedFailure ==
    \A q \in Procs :
        waited[q] = "err"
        => /\ loads[q] = 0
           /\ pc[q] = "ret" => err[q] # Nil

\* C32 (update nickname rule): an update request that has reached the lookup
\* of its nickname (fields valid, id well formed) can pass the check of the
\* user found exactly when no stored user with another id holds the nickname.
C32_UpdateNickname ==
    \A h \in Handlers :
        (hpc[h] = "lookup" /\ hreq[h].op = "update")
        => ((ENABLED (HandlerLookup(h) /\ hpc'[h] = "write"))
            <=> ~\E u \in users : u.nick = hreq[h].nick /\ u.id # hreq[h].id)

\* C33 (the watcher set is not mutated during fan-out): a step changes the
\* watchers set only when it leaves a WatchUsers call holding s.mu in write
\* mode, with no holder in read mode and no NotifyUpdate call in its range; a
\* NotifyUpdate call in its range holds s.mu in read mode, and the channels it
\* has visited and has yet to visit are together the watchers set.
C33_FixedFanOut ==
    [][/\ watchers' # watchers
          => /\ muWriter' \in Watchers
             /\ muReaders = {}
             /\ \A n \in Notifiers : npc[n] # "range"
       /\ \A n \in Notifiers :
             npc'[n] = "range"
             => n \in muReaders' /\ todo'[n] \cup tried'[n] = watchers']_vars

\* A NotifyUpdate call is part-way through its range over two channels while a
\* WatchUsers call waits for the lock to remove its channel.
C33_Witness ==
    \E n \in Notifiers, w \in Watchers :
        /\ npc[n] = "range" /\ tried[n] # {} /\ todo[n] # {}
        /\ wpc[w] = "cleanwait" /\ w \in watchers

\* C34 (every access to the map is under the lock): the first lookup of a
\* GetData call is made holding the read lock with no writer; its second lookup,
\* its age check and its store are made holding the write lock; and when the
\* cleanUpJob reads the length of the map and goes on to its pass, no GetData
\* call holds the write lock under which it stores.
C34_LockedAccess ==
    [][/\ \A p \in Procs :
             /\ (pc[p] = "r1" /\ pc'[p] # "r1") => (p \in readers /\ writer = NoLock)
             /\ (pc[p] \in {"a2", "u2", "a3", "ret"} /\ pc'[p] # pc[p]) => writer = p
       /\ (spc = "sleep" /\ spc' = "lock") => writer \notin Procs]_vars

\* C35 (a non-expired entry is left alone): an entry of the map whose age is
\* below the ttl is the same after every step that is not a Clear, and no
\* GetData call invokes its loader for a key whose entry has an age below the ttl.
C35_FreshEntryKept ==
    [][/\ \A k \in DOMAIN data :
             ~ReachedTtl(data[k])
             => (data' = NewMap \/ (k \in DOMAIN data' /\ data'[k] = data[k]))
       /\ \A p \in Procs :
             loads'[p] > loads[p]
             => (key[p] \notin DOMAIN data \/ ReachedTtl(data[key[p]]))]_vars

\* C36 (a call that does not load returns the map's entry): a GetData call
\* that is about to return without having invoked its loader returns the value
\* of the entry the map held for its key when it took the lock of its age check.
C36_ReturnsMapEntry ==
    \A p \in Procs :
        (pc[p] = "ret" /\ loads[p] = 0)
        => /\ key[p] \in DOMAIN snap[p]
           /\ Result(p) = [val |-> snap[p][key[p]].data, err |-> Nil]

C38_EventsInWriteOrder ==
    [][\A e \in published' \ published :
          \A e2 \in spawned' :
              ~(writes[e2.w].by = writes[e.w].by /\ e2.w < e.w)]_vars

\* What a page or a limit given to the HTTP handler or to the gRPC method says,
\* when it says a number.
Asked(via, x) == IF via = "http" THEN Atoi(x) ELSE [n |-> x, err |-> FALSE]

\* C39 (pagination bounds): whatever page and limit a query gives, the HTTP
\* handler and the gRPC method call db.GetUsersFiltered with a page in 1..1000
\* and a limit in 1..50, the skip being (page - 1) * limit; a page and a limit
\* given in range are passed on as they are by both.
C39_PaginationBounds ==
    \A i \in DOMAIN qout :
       /\ 1 <= qout[i].page /\ qout[i].page <= MaxPage
       /\ 1 <= qout[i].limit /\ qout[i].limit <= MaxLimit
       /\ qout[i].skip = (qout[i].page - 1) * qout[i].limit
       /\ LET p == Asked(qin.via, qin.page)
              l == Asked(qin.via, qin.limit)
          IN (~p.err /\ ~l.err /\ p.n \in 1..MaxPage /\ l.n \in 1..MaxLimit)
             => (qout[i].page = p.n /\ qout[i].limit = l.n)

====
